---- MODULE Spec2Model ----
(***************************************************************************)
(* Model of scripts/build_config.py: the build of the compiled octoDNS     *)
(* zone files.  One run of main() clears compiled/, walks the zone         *)
(* directories under zones/, merges each apex file with its subdomain      *)
(* files (merge_zone_files) and writes one compiled zone per apex, then    *)
(* the top-level config.                                                   *)
(*                                                                         *)
(* Data.  A string is a sequence of one-character strings ("e.c" is        *)
(* <<"e", ".", "c">>), so that suffixes, stripping and the lexical order   *)
(* of Python's str are computed and not assumed.  A parsed YAML value is   *)
(* a record tagged by t:                                                   *)
(*   [t |-> "null"]                      None                              *)
(*   [t |-> "int",  n |-> 0]             an int                            *)
(*   [t |-> "bool", b |-> FALSE]         a bool                            *)
(*   [t |-> "str",  s |-> <<"A">>]       a str                             *)
(*   [t |-> "seq",  items |-> <<v, ..>>] a list                            *)
(*   [t |-> "map",  items |-> <<<<k, v>>, ..>>]  a dict, keys in           *)
(*                                       insertion order, keys distinct    *)
(* A Python exception is the err field of an operator's result.            *)
(***************************************************************************)
EXTENDS Integers, Sequences, FiniteSets, TLC

---------------------------------------------------------------------------
(* Strings                                                                 *)

Str_empty == << >>
Str_dot == <<".">>
Str_type == <<"t", "y", "p", "e">>

\* ord(c) of the characters the model uses.
Code(c) ==
    CASE c = "\"" -> 34 [] c = "," -> 44 [] c = "." -> 46
      [] c = "0" -> 48 [] c = "1" -> 49 [] c = "2" -> 50 [] c = ":" -> 58
      [] c = "A" -> 65 [] c = "B" -> 66 [] c = "[" -> 91 [] c = "]" -> 93
      [] c = "a" -> 97 [] c = "c" -> 99 [] c = "e" -> 101 [] c = "f" -> 102
      [] c = "l" -> 108 [] c = "n" -> 110 [] c = "o" -> 111 [] c = "p" -> 112
      [] c = "r" -> 114 [] c = "s" -> 115 [] c = "t" -> 116 [] c = "u" -> 117
      [] c = "v" -> 118 [] c = "w" -> 119 [] c = "x" -> 120 [] c = "y" -> 121
      [] c = "{" -> 123 [] c = "}" -> 125

\* a < b for Python str: by code point, a proper prefix first.
RECURSIVE StrLess(_, _)
StrLess(a, b) ==
    IF a = << >> THEN b # << >>
    ELSE IF b = << >> THEN FALSE
    ELSE IF Code(Head(a)) # Code(Head(b)) THEN Code(Head(a)) < Code(Head(b))
    ELSE StrLess(Tail(a), Tail(b))

\* str.endswith(suffix)
EndsWith(s, suffix) ==
    /\ Len(suffix) <= Len(s)
    /\ SubSeq(s, Len(s) - Len(suffix) + 1, Len(s)) = suffix

\* str.startswith(prefix)
StartsWith(s, prefix) ==
    /\ Len(prefix) <= Len(s)
    /\ SubSeq(s, 1, Len(prefix)) = prefix

\* str.rstrip('.')
RECURSIVE RStripDot(_)
RStripDot(s) ==
    IF s # << >> /\ s[Len(s)] = "." THEN RStripDot(SubSeq(s, 1, Len(s) - 1))
    ELSE s

\* str.lower() on the characters of a file suffix.
LowerChar(c) ==
    CASE c = "Y" -> "y" [] c = "M" -> "m" [] c = "L" -> "l" [] c = "A" -> "a"
      [] OTHER -> c

Lower(s) == [i \in 1..Len(s) |-> LowerChar(s[i])]

\* Path(name).suffix and Path(name).stem: the name is cut at its last '.',
\* unless that is its first or its last character.
LastDot(name) ==
    IF \E k \in 1..Len(name) : name[k] = "."
    THEN CHOOSE k \in 1..Len(name) :
            name[k] = "." /\ \A j \in (k + 1)..Len(name) : name[j] # "."
    ELSE 0

Suffix(name) ==
    IF 1 < LastDot(name) /\ LastDot(name) < Len(name)
    THEN SubSeq(name, LastDot(name), Len(name))
    ELSE Str_empty

Stem(name) ==
    IF 1 < LastDot(name) /\ LastDot(name) < Len(name)
    THEN SubSeq(name, 1, LastDot(name) - 1)
    ELSE name

---------------------------------------------------------------------------
(* YAML values                                                             *)

Null == [t |-> "null"]
IntV(n) == [t |-> "int", n |-> n]
BoolV(b) == [t |-> "bool", b |-> b]
StrV(s) == [t |-> "str", s |-> s]
SeqV(items) == [t |-> "seq", items |-> items]
MapV(items) == [t |-> "map", items |-> items]

IsMap(v) == v.t = "map"
IsSeq(v) == v.t = "seq"

\* bool(v): the operand of "or" in load_yaml.
Truthy(v) ==
    CASE v.t = "null" -> FALSE
      [] v.t = "int" -> v.n # 0
      [] v.t = "bool" -> v.b
      [] v.t = "str" -> v.s # << >>
      [] v.t = "seq" -> v.items # << >>
      [] v.t = "map" -> v.items # << >>

\* key in dict, dict.get(key, default)
HasKey(m, k) == \E i \in 1..Len(m.items) : m.items[i][1] = k
Get(m, k, default) ==
    IF HasKey(m, k)
    THEN m.items[CHOOSE i \in 1..Len(m.items) : m.items[i][1] = k][2]
    ELSE default

\* load_yaml: "yaml.safe_load(fh) or {}", then the isinstance test.
load_yaml(parsed) ==
    LET data == IF Truthy(parsed) THEN parsed ELSE MapV(<< >>)
    IN  IF ~IsMap(data)
        THEN [err |-> "MalformedDocument", data |-> MapV(<< >>)]
        ELSE [err |-> "none", data |-> data]

\* normalize_records that takes a scalar for no records.
normalize_records_lenient(value) ==
    IF IsSeq(value) THEN [err |-> "none", recs |-> SelectSeq(value.items, IsMap)]
    ELSE IF IsMap(value) THEN [err |-> "none", recs |-> <<value>>]
    ELSE [err |-> "none", recs |-> << >>]

\* normalize_records
normalize_records(value) ==
    IF value.t = "null" THEN [err |-> "none", recs |-> << >>]
    ELSE IF IsSeq(value)
    THEN [err |-> "none", recs |-> SelectSeq(value.items, IsMap)]
    ELSE IF IsMap(value) THEN [err |-> "none", recs |-> <<value>>]
    ELSE [err |-> "InvalidRecordShape", recs |-> << >>]

---------------------------------------------------------------------------
(* serialize_record: json.dumps(rec, sort_keys=True, separators=(",", ":")) *)

RECURSIVE Digits(_)
Digits(n) ==
    LET d == <<"0", "1", "2", "3", "4", "5", "6", "7", "8", "9">>
    IN  IF n < 10 THEN <<d[n + 1]>> ELSE Digits(n \div 10) \o <<d[(n % 10) + 1]>>

\* sort_keys=True: the items of a dict by key.
RECURSIVE InsertItem(_, _)
InsertItem(x, s) ==
    IF s = << >> THEN <<x>>
    ELSE IF StrLess(x[1], Head(s)[1]) THEN <<x>> \o s
    ELSE <<Head(s)>> \o InsertItem(x, Tail(s))

RECURSIVE SortItems(_)
SortItems(s) ==
    IF s = << >> THEN << >>
    ELSE InsertItem(s[Len(s)], SortItems(SubSeq(s, 1, Len(s) - 1)))

RECURSIVE JsonDumps(_)
RECURSIVE JsonJoinItems(_)
RECURSIVE JsonJoinElems(_)
JsonJoinItems(items) ==
    IF items = << >> THEN << >>
    ELSE <<"\"">> \o Head(items)[1] \o <<"\"", ":">> \o JsonDumps(Head(items)[2])
         \o (IF Len(items) > 1 THEN <<",">> ELSE << >>)
         \o JsonJoinItems(Tail(items))

JsonJoinElems(elems) ==
    IF elems = << >> THEN << >>
    ELSE JsonDumps(Head(elems))
         \o (IF Len(elems) > 1 THEN <<",">> ELSE << >>)
         \o JsonJoinElems(Tail(elems))

JsonDumps(v) ==
    CASE v.t = "null" -> <<"n", "u", "l", "l">>
      [] v.t = "int" -> Digits(v.n)
      [] v.t = "bool" ->
            IF v.b THEN <<"t", "r", "u", "e">> ELSE <<"f", "a", "l", "s", "e">>
      [] v.t = "str" -> <<"\"">> \o v.s \o <<"\"">>
      [] v.t = "seq" -> <<"[">> \o JsonJoinElems(v.items) \o <<"]">>
      [] v.t = "map" -> <<"{">> \o JsonJoinItems(SortItems(v.items)) \o <<"}">>

serialize_record(rec) == JsonDumps(rec)

---------------------------------------------------------------------------
(* merge_zone_files                                                        *)

\* merged[name].extend(recs) on the defaultdict(list): merged is the
\* sequence of <<name, records>> in insertion order.
Extend(merged, name, recs) ==
    IF \E i \in 1..Len(merged) : merged[i][1] = name
    THEN [i \in 1..Len(merged) |->
            IF merged[i][1] = name THEN <<name, merged[i][2] \o recs>>
            ELSE merged[i]]
    ELSE Append(merged, <<name, recs>>)

\* "for name, value in apex_data.items(): merged[name].extend(...)"
RECURSIVE MergeApexItems(_, _)
MergeApexItems(merged, items) ==
    IF items = << >> THEN [err |-> "none", merged |-> merged]
    ELSE LET n == normalize_records(Head(items)[2])
         IN  IF n.err # "none" THEN [err |-> n.err, merged |-> merged]
             ELSE MergeApexItems(Extend(merged, Head(items)[1], n.recs),
                                 Tail(items))

\* The relative label of a subdomain file: base[: -len(apex_domain)].rstrip('.')
RelLabel(base, apex_domain) ==
    RStripDot(SubSeq(base, 1, Len(base) - Len(apex_domain)))

\* The remapped name with the label in front of the name.
NewName_label_first(name, rel) ==
    IF name = Str_empty THEN rel
    ELSE IF rel # Str_empty THEN rel \o Str_dot \o name ELSE name

\* The remapped name of one entry of a subdomain file.
NewName(name, rel) ==
    IF name = Str_empty THEN rel
    ELSE IF rel # Str_empty THEN name \o Str_dot \o rel ELSE name

\* "for name, value in sub_data.items(): ... merged[new_name].extend(...)"
RECURSIVE MergeSubItems(_, _, _)
MergeSubItems(merged, items, rel) ==
    IF items = << >> THEN [err |-> "none", merged |-> merged]
    ELSE LET n == normalize_records(Head(items)[2])
         IN  IF n.err # "none" THEN [err |-> n.err, merged |-> merged]
             ELSE MergeSubItems(
                      Extend(merged, NewName(Head(items)[1], rel), n.recs),
                      Tail(items), rel)

\* The test without "or base == apex_domain".
IsSkipped_suffix_only(base, apex_domain) == ~EndsWith(base, apex_domain)

\* The test that skips a file which is no subdomain of the apex.
IsSkipped(base, apex_domain) ==
    ~EndsWith(base, apex_domain) \/ base = apex_domain

\* "for sub in sub_files": skip with a warning, or load and fold in.
\* warned: the files log.warning("Skipping non-subdomain file") named.
RECURSIVE MergeSubFiles(_, _, _, _)
MergeSubFiles(merged, sub_files, apex_domain, warned) ==
    IF sub_files = << >>
    THEN [err |-> "none", merged |-> merged, warned |-> warned]
    ELSE LET sub == Head(sub_files)
             base == Stem(sub.name)
         IN  IF IsSkipped(base, apex_domain)
             THEN MergeSubFiles(merged, Tail(sub_files), apex_domain,
                                Append(warned, sub.name))
             ELSE LET sub_data == load_yaml(sub.parsed)
                      r == IF sub_data.err # "none"
                           THEN [err |-> sub_data.err, merged |-> merged]
                           ELSE MergeSubItems(merged, sub_data.data.items,
                                              RelLabel(base, apex_domain))
                  IN  IF r.err # "none"
                      THEN [err |-> r.err, merged |-> r.merged, warned |-> warned]
                      ELSE MergeSubFiles(r.merged, Tail(sub_files), apex_domain,
                                         warned)

\* The key of sorted(merged.keys(), key=lambda n: (n != "", n)).
NameLess(a, b) ==
    IF (a # Str_empty) # (b # Str_empty) THEN a = Str_empty
    ELSE StrLess(a, b)

RECURSIVE InsertName(_, _)
InsertName(x, s) ==
    IF s = << >> THEN <<x>>
    ELSE IF NameLess(x, Head(s)) THEN <<x>> \o s
    ELSE <<Head(s)>> \o InsertName(x, Tail(s))

RECURSIVE SortNames(_)
SortNames(s) ==
    IF s = << >> THEN << >>
    ELSE InsertName(s[Len(s)], SortNames(SubSeq(s, 1, Len(s) - 1)))

\* A dedup that keeps the last record of each serialized form.
RECURSIVE Dedup_keep_last(_, _)
Dedup_keep_last(recs, seen) ==
    IF recs = << >> THEN << >>
    ELSE IF \E k \in 2..Len(recs) :
               serialize_record(recs[k]) = serialize_record(Head(recs))
    THEN Dedup_keep_last(Tail(recs), seen)
    ELSE <<Head(recs)>> \o Dedup_keep_last(Tail(recs), seen)

\* The "seen" loop: the first record of each serialized form, in order.
RECURSIVE Dedup(_, _)
Dedup(recs, seen) ==
    IF recs = << >> THEN << >>
    ELSE LET key == serialize_record(Head(recs))
         IN  IF key \notin seen
             THEN <<Head(recs)>> \o Dedup(Tail(recs), seen \cup {key})
             ELSE Dedup(Tail(recs), seen)

\* The key of records.sort(key=lambda r: (r.get("type", ""), serialize_record(r))).
RecordLess(a, b) ==
    LET ta == Get(a, Str_type, StrV(Str_empty)).s
        tb == Get(b, Str_type, StrV(Str_empty)).s
    IN  IF ta # tb THEN StrLess(ta, tb)
        ELSE StrLess(serialize_record(a), serialize_record(b))

RECURSIVE InsertRecord(_, _)
InsertRecord(x, s) ==
    IF s = << >> THEN <<x>>
    ELSE IF RecordLess(x, Head(s)) THEN <<x>> \o s
    ELSE <<Head(s)>> \o InsertRecord(x, Tail(s))

\* No sort: the records stay in arrival order.
SortRecords_none(s) == s

RECURSIVE SortRecords(_)
SortRecords(s) ==
    IF s = << >> THEN << >>
    ELSE InsertRecord(s[Len(s)], SortRecords(SubSeq(s, 1, Len(s) - 1)))

\* "records[0] if records else records"
Coerce_nonempty(records) ==
    IF Len(records) >= 1 THEN records[1] ELSE SeqV(records)

\* "out[name] = records[0] if len(records) == 1 else records"
Coerce(records) ==
    IF Len(records) = 1 THEN records[1] ELSE SeqV(records)

\* The value of one name: deduplicated, sorted, a singleton coerced.
OutValue(recs) == Coerce(SortRecords(Dedup(recs, {})))

Lookup(merged, name) ==
    merged[CHOOSE i \in 1..Len(merged) : merged[i][1] = name][2]

\* The last loop of merge_zone_files: out, a dict in insertion order.
BuildOut(merged) ==
    LET names == SortNames([i \in 1..Len(merged) |-> merged[i][1]])
    IN  [i \in 1..Len(names) |-> <<names[i], OutValue(Lookup(merged, names[i]))>>]

merge_zone_files(apex_domain, apex_data, sub_files) ==
    LET a == MergeApexItems(<< >>, apex_data.items)
        s == IF a.err # "none"
             THEN [err |-> a.err, merged |-> a.merged, warned |-> << >>]
             ELSE MergeSubFiles(a.merged, sub_files, apex_domain, << >>)
    IN  IF s.err # "none"
        THEN [err |-> s.err, out |-> << >>, warned |-> s.warned]
        ELSE [err |-> "none", out |-> BuildOut(s.merged), warned |-> s.warned]

---------------------------------------------------------------------------
(* The files of a run, and main                                            *)

\* A file of a zone directory is [name, parsed]: its name and what
\* yaml.safe_load reads from it.  An entry of zones/ is
\* [name, is_dir, files], files in the order iterdir() lists them.
\* A compiled file is [name, data], data the dict write_yaml dumps with
\* sort_keys=False: the sequence of <<name, value>> in insertion order.

VARIABLES
    zones,       \* zones/: the entries iterdir() lists, in its order
    compiled,    \* compiled/: [exists, files], files a set of [name, data]
    config,      \* compiled.config.yml: [exists, data]
    pc,          \* "start", "loop", "done" (return 0), "aborted" (exception)
    zone_dirs,   \* main's zone_dirs
    i,           \* the position of "for zd in zone_dirs", from 1
    error,       \* the ValueError that ended the run, or "none"
    warnings,    \* what log.warning printed, in order
    disk_log     \* the disk-mutating calls of the run, in order

vars == <<zones, compiled, config, pc, zone_dirs, i, error, warnings, disk_log>>

Suffix_yml == <<".", "y", "m", "l">>
Suffix_yaml == <<".", "y", "a", "m", "l">>
default_ttl == 300
Path_compiled == <<"c", "o", "m", "p", "i", "l", "e", "d">>
Path_compiled_slash == Path_compiled \o <<"/">>
Path_config == Path_compiled \o <<".", "c", "o", "n", "f", "i", "g">> \o Suffix_yml

\* find_zone_dirs
find_zone_dirs(entries) ==
    SelectSeq(entries, LAMBDA p : p.is_dir /\ ~StartsWith(p.name, Str_dot))

\* is_yaml
is_yaml(p) == Lower(Suffix(p.name)) \in {Suffix_yml, Suffix_yaml}

\* discover_apex_file: the first of <name>.yml, <name>.yaml that exists.
discover_apex_file(zone_dir) ==
    LET candidates == <<zone_dir.name \o Suffix_yml, zone_dir.name \o Suffix_yaml>>
        Exists(c) == \E k \in 1..Len(zone_dir.files) : zone_dir.files[k].name = c
        File(c) == zone_dir.files[CHOOSE k \in 1..Len(zone_dir.files) :
                                      zone_dir.files[k].name = c]
    IN  IF Exists(candidates[1]) THEN [found |-> TRUE, file |-> File(candidates[1])]
        ELSE IF Exists(candidates[2])
        THEN [found |-> TRUE, file |-> File(candidates[2])]
        ELSE [found |-> FALSE, file |-> [name |-> Str_empty, parsed |-> Null]]

\* main without the apex-key guarantee.
EnsureApexKey_none(merged) == merged

\* "if '' not in merged: merged[''] = []": a new key goes last in the dict.
EnsureApexKey(merged) ==
    IF \E k \in 1..Len(merged) : merged[k][1] = Str_empty THEN merged
    ELSE Append(merged, <<Str_empty, SeqV(<< >>)>>)

\* build_config_yaml
build_config_yaml(compiled_dir) ==
    [providers |->
        [config |-> [class |-> "octodns.provider.yaml.YamlProvider",
                     directory |-> compiled_dir,
                     default_ttl |-> default_ttl],
         cloudflare |-> [class |-> "octodns_cloudflare.CloudflareProvider",
                         token |-> "env/CLOUDFLARE_API_TOKEN",
                         pagerules |-> FALSE]],
     zones |-> << <<"*", [sources |-> <<"config">>, targets |-> <<"cloudflare">>]>> >>]

\* The body of "for zd in zone_dirs" up to write_yaml: what it does with
\* one zone directory.
ZoneBody(zd) ==
    LET apex == discover_apex_file(zd)
        apex_file == apex.file
        apex_domain == Stem(apex_file.name)
        sub_files == SelectSeq(zd.files,
                               LAMBDA p : is_yaml(p) /\ p.name # apex_file.name)
        apex_data == load_yaml(apex_file.parsed)
        m == merge_zone_files(apex_domain, apex_data.data, sub_files)
    IN  IF ~apex.found
        THEN [kind |-> "skip", err |-> "none", warned |-> << >>,
              path |-> Str_empty, merged |-> << >>]
        ELSE IF apex_data.err # "none"
        THEN [kind |-> "raise", err |-> apex_data.err, warned |-> << >>,
              path |-> Str_empty, merged |-> << >>]
        ELSE IF m.err # "none"
        THEN [kind |-> "raise", err |-> m.err, warned |-> m.warned,
              path |-> Str_empty, merged |-> << >>]
        ELSE [kind |-> "write", err |-> "none", warned |-> m.warned,
              path |-> apex_domain \o Suffix_yaml,
              merged |-> EnsureApexKey(m.out)]

SkipWarnings(names) ==
    [k \in 1..Len(names) |-> [kind |-> "SkippedSubdomainFile", name |-> names[k]]]

\* write_yaml(path, data) into compiled/: the file is created or replaced.
WriteFile(dir, path, data) ==
    [exists |-> TRUE,
     files |-> {f \in dir.files : f.name # path} \cup {[name |-> path, data |-> data]}]

\* Clean without the rmtree: what compiled/ held stays.
CleanKeepsFiles ==
    /\ pc = "start"
    /\ compiled' = [exists |-> TRUE, files |-> compiled.files]
    /\ disk_log' = Append(disk_log, [op |-> "mkdir", path |-> Path_compiled])
    /\ zone_dirs' = find_zone_dirs(zones)
    /\ warnings' = warnings
    /\ i' = 1
    /\ pc' = "loop"
    /\ UNCHANGED <<zones, config, error>>

\* main, up to the loop: clean compiled/, list the zone directories.
Clean ==
    /\ pc = "start"
    /\ compiled' = [exists |-> TRUE, files |-> {}]
    /\ disk_log' = disk_log
                   \o (IF compiled.exists
                       THEN <<[op |-> "rmtree", path |-> Path_compiled]>>
                       ELSE << >>)
                   \o <<[op |-> "mkdir", path |-> Path_compiled]>>
    /\ zone_dirs' = find_zone_dirs(zones)
    /\ warnings' = IF find_zone_dirs(zones) = << >>
                   THEN Append(warnings, [kind |-> "EmptyZoneSet", name |-> Str_empty])
                   ELSE warnings
    /\ i' = 1
    /\ pc' = "loop"
    /\ UNCHANGED <<zones, config, error>>

\* One pass of the loop on a directory without an apex file: warn, continue.
SkipZone ==
    /\ pc = "loop" /\ i <= Len(zone_dirs)
    /\ ZoneBody(zone_dirs[i]).kind = "skip"
    /\ warnings' = Append(warnings,
                          [kind |-> "MissingApexFile", name |-> zone_dirs[i].name])
    /\ i' = i + 1
    /\ UNCHANGED <<zones, compiled, config, pc, zone_dirs, error, disk_log>>

\* One pass of the loop that merges and writes the compiled zone.
WriteZone ==
    /\ pc = "loop" /\ i <= Len(zone_dirs)
    /\ LET b == ZoneBody(zone_dirs[i])
       IN  /\ b.kind = "write"
           /\ warnings' = warnings \o SkipWarnings(b.warned)
           /\ compiled' = WriteFile(compiled, b.path, b.merged)
           /\ disk_log' = Append(disk_log,
                                 [op |-> "write_yaml", path |-> Path_compiled_slash \o b.path])
    /\ i' = i + 1
    /\ UNCHANGED <<zones, config, pc, zone_dirs, error>>

\* One pass of the loop in which load_yaml or normalize_records raises:
\* the exception leaves main.
RaiseInZone ==
    /\ pc = "loop" /\ i <= Len(zone_dirs)
    /\ LET b == ZoneBody(zone_dirs[i])
       IN  /\ b.kind = "raise"
           /\ warnings' = warnings \o SkipWarnings(b.warned)
           /\ error' = b.err
    /\ pc' = "aborted"
    /\ UNCHANGED <<zones, compiled, config, zone_dirs, i, disk_log>>

\* After the loop: write the top-level config, return 0.
WriteConfig ==
    /\ pc = "loop" /\ i > Len(zone_dirs)
    /\ config' = [exists |-> TRUE, data |-> build_config_yaml(Path_compiled)]
    /\ disk_log' = Append(disk_log, [op |-> "write_yaml", path |-> Path_config])
    /\ pc' = "done"
    /\ UNCHANGED <<zones, compiled, zone_dirs, i, error, warnings>>

Next == Clean \/ SkipZone \/ WriteZone \/ RaiseInZone \/ WriteConfig

---------------------------------------------------------------------------
(* The inputs of a run                                                     *)

MaxDirs == 2        \* entries of zones/
MaxTreeFiles == 1   \* files of a zone directory, where the directories vary
MaxSubFiles == 2    \* subdomain files of a zone directory, where the files vary
MaxList == 2        \* elements of a list of records

Name_ec == <<"e", ".", "c">>
Name_c == <<"c">>
Name_hidden == <<".", "c">>
Name_s == <<"s">>
Name_w == <<"w">>
Suffix_txt == <<".", "t", "x", "t">>
Suffix_YML == <<".", "Y", "M", "L">>

\* Records: A1 and A1r are the same fields in another order, A2 has the
\* type of A1 and another value, N1 has no type.
Rec_A1 == MapV(<< <<Str_type, StrV(<<"A">>)>>, <<<<"v">>, StrV(<<"1">>)>> >>)
Rec_A1r == MapV(<< <<<<"v">>, StrV(<<"1">>)>>, <<Str_type, StrV(<<"A">>)>> >>)
Rec_A2 == MapV(<< <<Str_type, StrV(<<"A">>)>>, <<<<"v">>, StrV(<<"2">>)>> >>)
Rec_N1 == MapV(<< <<<<"v">>, StrV(<<"1">>)>> >>)
RecordPool == {Rec_A1, Rec_A1r, Rec_A2, Rec_N1}

\* A document with one entry, with two.
Doc1(name, value) == MapV(<< <<name, value>> >>)
Doc2(n1, v1, n2, v2) == MapV(<< <<n1, v1>>, <<n2, v2>> >>)

File(name, parsed) == [name |-> name, parsed |-> parsed]
Dir(name, files) == [name |-> name, is_dir |-> TRUE, files |-> files]
NotADir(name) == [name |-> name, is_dir |-> FALSE, files |-> << >>]

\* The sequences of at most n elements of S.
SeqsUpTo(S, n) == UNION {[1..k -> S] : k \in 0..n}

\* A directory listing names each file once.
DistinctNames(fs) == \A a, b \in 1..Len(fs) : a # b => fs[a].name # fs[b].name

\* compiled/ before the run: absent, empty, or left by an earlier run.
StaleFile == [name |-> <<"o", "l", "d">> \o Suffix_yaml, data |-> << >>]
StaleZone == [name |-> Name_ec \o Suffix_yaml,
              data |-> << <<Name_w, Rec_A2>>, <<Str_empty, SeqV(<< >>)>> >>]
CompiledBefore ==
    {[exists |-> FALSE, files |-> {}], [exists |-> TRUE, files |-> {}],
     [exists |-> TRUE, files |-> {StaleFile, StaleZone}]}

GoodDoc == Doc1(Str_empty, Rec_A1)
BadDoc == SeqV(<<Null>>)

\* The directories vary: up to MaxDirs entries of zones/, each a file or a
\* directory of up to MaxTreeFiles files, or the hidden directory .c with
\* its own .c.yml.
TreeFiles(n) ==
    {File(n \o sfx, GoodDoc) : sfx \in {Suffix_yml, Suffix_yaml, Suffix_YML, Suffix_txt}}
    \cup {File(Name_s \o Str_dot \o n \o Suffix_yml, GoodDoc)}

TreeEntries ==
    UNION {{NotADir(n)}
           \cup {Dir(n, fs) : fs \in {x \in SeqsUpTo(TreeFiles(n), MaxTreeFiles) :
                                        DistinctNames(x)}}
           : n \in {Name_ec, Name_c}}
    \cup {Dir(Name_hidden, <<File(Name_hidden \o Suffix_yml, GoodDoc)>>)}

TreeZones == {z \in SeqsUpTo(TreeEntries, MaxDirs) : DistinctNames(z)}

\* The documents vary: the zone directory e.c with its apex file and up to
\* MaxSubFiles other files, each of any top-level shape, alone or followed
\* by a second zone directory.
LoadDocs ==
    {Null, SeqV(<< >>), StrV(Str_empty), IntV(0), BoolV(FALSE),
     BadDoc, IntV(1), MapV(<< >>),
     GoodDoc, Doc1(Str_empty, IntV(0)), Doc1(Str_empty, Null),
     Doc1(Str_empty, SeqV(<<IntV(0), Rec_A1>>))}

LoadSubDocs ==
    {SeqV(<< >>), BadDoc, GoodDoc, Doc1(Str_empty, IntV(0)),
     Doc1(Str_empty, SeqV(<<IntV(0), Rec_A1>>))}

LoadSubFiles ==
    {File(st \o Suffix_yml, d) :
        st \in {Name_s \o Str_dot \o Name_ec, Name_w \o Str_dot \o Name_ec, <<"x">>},
        d \in LoadSubDocs}

LoadZones ==
    {<<Dir(Name_ec, <<File(Name_ec \o Suffix_yml, d)>> \o fs)>> \o rest :
        d \in LoadDocs,
        fs \in {x \in SeqsUpTo(LoadSubFiles, MaxSubFiles) : DistinctNames(x)},
        rest \in {<< >>, <<Dir(Name_c, <<File(Name_c \o Suffix_yml, GoodDoc)>>)>>}}

InitRun ==
    /\ config = [exists |-> FALSE]
    /\ pc = "start"
    /\ zone_dirs = << >>
    /\ i = 0
    /\ error = "none"
    /\ warnings = << >>
    /\ disk_log = << >>

Init ==
    /\ \/ zones \in TreeZones /\ compiled \in CompiledBefore
       \/ zones \in LoadZones /\ compiled = [exists |-> TRUE, files |-> {StaleFile}]
    /\ InitRun

Spec == Init /\ [][Next]_vars

\* The names vary: the zone directory e.c with its apex file and up to
\* MaxSubFiles other files, whose names do or do not extend the apex domain.
NameApexDocs == {MapV(<< >>), Doc1(Str_empty, Rec_A1), Doc1(Name_s, Rec_A2)}

NameSubDocs == {Doc1(Str_empty, Rec_A2), Doc2(Str_empty, Rec_A1, Name_w, Rec_N1)}

NameSubFiles ==
    {File(st \o Suffix_yml, d) :
        st \in {Name_s \o Str_dot \o Name_ec,          \* s.e.c
                Str_dot \o Name_ec,                    \* .e.c
                Name_s \o Name_ec,                     \* se.c
                Name_s \o Str_dot \o Str_dot \o Name_ec, \* s..e.c
                Name_c},                               \* c
        d \in NameSubDocs}
    \cup {File(Name_ec \o Suffix_yaml, d) : d \in NameSubDocs}
    \cup {File(Name_s \o Str_dot \o Name_ec \o Suffix_txt, Doc1(Str_empty, Rec_A2))}

NameZones ==
    {<<Dir(Name_ec, <<File(Name_ec \o Suffix_yml, d)>> \o fs)>> :
        d \in NameApexDocs,
        fs \in {x \in SeqsUpTo(NameSubFiles, MaxSubFiles) : DistinctNames(x)}}

\* The records vary: the apex file and the files s.e.c and se.c all give
\* records to the name s.  The apex file and se.c give a record or null,
\* s.e.c a record, null, a scalar, or a list of up to MaxList records; the
\* subdomain files stand in either order.
RecordValues ==
    {Null, IntV(0)} \cup RecordPool
    \cup {SeqV(l) : l \in SeqsUpTo(RecordPool, MaxList)}

RecordApexDocs ==
    {MapV(<< >>)} \cup {Doc1(Name_s, v) : v \in {Null} \cup RecordPool}

RecordSubFiles ==
    {File(Name_s \o Str_dot \o Name_ec \o Suffix_yml, Doc1(Str_empty, v)) :
        v \in RecordValues}
    \cup {File(Name_s \o Name_ec \o Suffix_yml, Doc1(Str_empty, v)) :
             v \in {Null} \cup RecordPool}

RecordZones ==
    {<<Dir(Name_ec, fs \o <<File(Name_ec \o Suffix_yml, d)>>)>> :
        d \in RecordApexDocs,
        fs \in {x \in SeqsUpTo(RecordSubFiles, 2) : DistinctNames(x)}}

\* A zones/ that holds, before the zone directory, a directory without an
\* apex file.
NoApexDir == Dir(Name_c, << >>)

InitMerge ==
    /\ zones \in NameZones \cup RecordZones
                 \cup {<<NoApexDir>> \o z : z \in {y \in NameZones : Len(y[1].files) = 1}}
    /\ compiled = [exists |-> TRUE, files |-> {StaleFile}]
    /\ InitRun

SpecMerge == InitMerge /\ [][Next]_vars

---------------------------------------------------------------------------
(* What the properties speak of, read off the files of the run             *)

\* A candidate: an immediate subdirectory of zones/ that is not hidden.
IsCandidate(e) == e.is_dir /\ (e.name = Str_empty \/ e.name[1] # ".")

\* The authoritative file of a candidate: <name>.yml, else <name>.yaml.
AuthNames(e) == {e.name \o Suffix_yml, e.name \o Suffix_yaml}
HasAuthFile(e) == \E k \in 1..Len(e.files) : e.files[k].name \in AuthNames(e)
AuthFile(e) ==
    IF \E k \in 1..Len(e.files) : e.files[k].name = e.name \o Suffix_yml
    THEN e.files[CHOOSE k \in 1..Len(e.files) : e.files[k].name = e.name \o Suffix_yml]
    ELSE e.files[CHOOSE k \in 1..Len(e.files) : e.files[k].name = e.name \o Suffix_yaml]

\* The subdomain files of a candidate, in discovery order.
SubFilesOf(e) ==
    SelectSeq(e.files, LAMBDA f : is_yaml(f) /\ f.name # AuthFile(e).name)

\* A file stem extends the apex domain: a non-empty prefix, then the domain.
ExtendsApex(stem, apex) ==
    \E k \in 1..(Len(stem) - 1) : SubSeq(stem, k + 1, Len(stem)) = apex

Merged(e) == {k \in 1..Len(SubFilesOf(e)) : ExtendsApex(Stem(SubFilesOf(e)[k].name), e.name)}

\* The documents of a zone group that a build loads: the apex document and
\* those of the subdomain files that are not skipped.
GroupDocs(e) ==
    {AuthFile(e).parsed} \cup {SubFilesOf(e)[k].parsed : k \in Merged(e)}

IsScalar(v) == v.t \notin {"null", "map", "seq"}
HasScalarValue(doc) ==
    IsMap(doc) /\ \E k \in 1..Len(doc.items) : IsScalar(doc.items[k][2])

\* The compiled file of an apex domain, when compiled/ holds one.
OutName(e) == e.name \o Suffix_yaml
HasZone(e) == \E f \in compiled.files : f.name = OutName(e)
ZoneData(e) == (CHOOSE f \in compiled.files : f.name = OutName(e)).data

\* The candidate at position k of the run has been dealt with.
Running == pc # "start"
Passed(k) == Running /\ k < i

---------------------------------------------------------------------------
(* C3 *)

\* C3: a document (the apex file's, or a non-skipped subdomain file's) whose
\* top level is not a mapping -- an empty sequence, an empty string, zero
\* and false included -- is fatal: the run never gets past that candidate
\* and writes no compiled zone for it.
C3_MalformedDocumentFatal ==
    Running =>
        \A k \in 1..Len(zone_dirs) :
            LET e == zone_dirs[k]
            IN  (HasAuthFile(e) /\ \E d \in GroupDocs(e) : d.t \notin {"map", "null"})
                => /\ ~Passed(k)
                   /\ ~HasZone(e)
                   /\ pc # "done"

---------------------------------------------------------------------------
(* C9 *)

\* A document that load_yaml rejects: its top level is no mapping and is
\* not replaced by the empty mapping.
IsRejected(doc) == ~IsMap(doc) /\ Truthy(doc)

\* What holds of a candidate with a scalar record value whatever the error
\* is called: the run never gets past it, writes no compiled zone for it,
\* processes no candidate after it and never returns 0.
StopsAt(k) ==
    /\ ~Passed(k)
    /\ ~HasZone(zone_dirs[k])
    /\ \A j \in (k + 1)..Len(zone_dirs) : ~HasZone(zone_dirs[j])
    /\ pc # "done" /\ ~config.exists

HasScalarGroup(e) == HasAuthFile(e) /\ \E d \in GroupDocs(e) : HasScalarValue(d)

\* C9 as stated: a record value that is neither null, a mapping nor a
\* sequence makes the merge fail with InvalidRecordShape and aborts the run.
C9_Original ==
    Running =>
        \A k \in 1..Len(zone_dirs) :
            HasScalarGroup(zone_dirs[k])
            => /\ StopsAt(k)
               /\ (pc = "aborted" /\ i = k) => error = "InvalidRecordShape"

\* C9, amended: the run aborts at that candidate with InvalidRecordShape, or
\* with MalformedDocument when a document of the same group is rejected by
\* the loader; and a candidate whose documents are all mappings or empty
\* and hold no scalar record value (null values and non-mapping list
\* elements included) never aborts the run.
C9_ScalarValueAborts ==
    Running =>
        \A k \in 1..Len(zone_dirs) :
            LET e == zone_dirs[k]
            IN  /\ HasScalarGroup(e)
                   => /\ StopsAt(k)
                      /\ (pc = "aborted" /\ i = k)
                         => \/ error = "InvalidRecordShape"
                            \/ /\ error = "MalformedDocument"
                               /\ \E d \in GroupDocs(e) : IsRejected(d)
                /\ (pc = "aborted" /\ i = k)
                   => /\ HasAuthFile(e)
                      /\ error = "InvalidRecordShape" => HasScalarGroup(e)
                      /\ error = "MalformedDocument"
                         => \E d \in GroupDocs(e) : IsRejected(d)
                      /\ error # "none"

\* A run aborted with InvalidRecordShape at its first candidate, whose apex
\* document also holds nothing else that could fail, with a candidate after
\* it; a subdomain file of the group holds a list with a non-mapping element.
C9_Witness ==
    /\ pc = "aborted" /\ error = "InvalidRecordShape" /\ i = 1
    /\ Len(zone_dirs) = 2
    /\ \E d \in GroupDocs(zone_dirs[1]) :
          IsMap(d) /\ \E k \in 1..Len(d.items) :
              IsSeq(d.items[k][2]) /\ \E j \in 1..Len(d.items[k][2].items) :
                  ~IsMap(d.items[k][2].items[j])

---------------------------------------------------------------------------
(* C10 *)

Candidates == {k \in 1..Len(zones) : IsCandidate(zones[k])}
WrittenNames == {disk_log[k].path : k \in {j \in 1..Len(disk_log) : disk_log[j].op = "write_yaml"}}

\* C10: the output directory is cleared before anything else is written;
\* a run that returns 0 leaves in it exactly one compiled file per
\* non-hidden candidate directory with an authoritative file, each written
\* by this run; a candidate without an authoritative file is never what
\* aborts a run; and the config is written, with or without candidates.
C10_OutputDirectory ==
    /\ Running =>
          /\ Len(disk_log) >= 1
          /\ disk_log[1].path = Path_compiled
          /\ \/ disk_log[1].op = "mkdir"
             \/ disk_log[1].op = "rmtree" /\ Len(disk_log) >= 2
                /\ disk_log[2] = [op |-> "mkdir", path |-> Path_compiled]
          /\ \A k \in 1..Len(disk_log) :
                disk_log[k].op \in {"rmtree", "mkdir"}
                => k <= (IF disk_log[1].op = "rmtree" THEN 2 ELSE 1)
    /\ ~Running => disk_log = << >>
    /\ pc = "done" =>
          /\ compiled.exists
          /\ {f.name : f \in compiled.files}
             = {OutName(zones[k]) : k \in {j \in Candidates : HasAuthFile(zones[j])}}
          /\ \A f \in compiled.files : Path_compiled_slash \o f.name \in WrittenNames
          /\ config.exists
          /\ config.data = build_config_yaml(Path_compiled)
    /\ pc = "aborted" => i \in 1..Len(zone_dirs) /\ HasAuthFile(zone_dirs[i])
    /\ (Running /\ Candidates = {}) => pc \in {"loop", "done"}

\* A finished run over a non-empty compiled/ that skipped a candidate
\* without an authoritative file and then wrote the zone of the next one.
C10_Witness ==
    /\ pc = "done" /\ disk_log[1].op = "rmtree"
    /\ Len(zone_dirs) = 2
    /\ ~HasAuthFile(zone_dirs[1]) /\ HasZone(zone_dirs[2])
    /\ Cardinality(compiled.files) = 1

---------------------------------------------------------------------------
(* The merge, as the properties state it                                   *)

\* The relative label of a stem that extends the apex domain: what is left
\* of the stem before the domain and the '.' characters in front of it.
IsRelLabel(r, stem, apex) ==
    /\ r = Str_empty \/ r[Len(r)] # "."
    /\ \E n \in 0..Len(stem) : stem = r \o [k \in 1..n |-> "."] \o apex

SpecRel(stem, apex) ==
    CHOOSE r \in {SubSeq(stem, 1, n) : n \in 0..Len(stem)} : IsRelLabel(r, stem, apex)

\* The name an entry of a subdomain file goes to.
SpecRemap(name, rel) ==
    CASE name = Str_empty -> rel
      [] name # Str_empty /\ rel # Str_empty -> name \o <<".">> \o rel
      [] name # Str_empty /\ rel = Str_empty -> name

\* The records of a raw value: the mapping itself, the mappings of a list.
RecsOf(value) ==
    IF IsMap(value) THEN <<value>>
    ELSE IF IsSeq(value)
    THEN SelectSeq(value.items, LAMBDA x : x.t = "map")
    ELSE << >>

\* The entries of a document; a document that is no mapping has none.
DocItems(parsed) == IF IsMap(parsed) THEN parsed.items ELSE << >>

RECURSIVE Concat(_)
Concat(ss) == IF ss = << >> THEN << >> ELSE Head(ss) \o Concat(Tail(ss))

\* The entries of a zone group as <<name in the zone, raw value>>, in
\* arrival order: the apex document, then the subdomain files that are not
\* skipped, in discovery order.
GroupEntries(e) ==
    LET subs == SubFilesOf(e)
        Sub(k) ==
            LET items == DocItems(subs[k].parsed)
                rel == SpecRel(Stem(subs[k].name), e.name)
            IN  [j \in 1..Len(items) |-> <<SpecRemap(items[j][1], rel), items[j][2]>>]
    IN  DocItems(AuthFile(e).parsed)
        \o Concat([k \in 1..Len(subs) |-> IF k \in Merged(e) THEN Sub(k) ELSE << >>])

\* The content of a record: its fields, whatever their order.
Fields(r) == {r.items[k] : k \in 1..Len(r.items)}

\* The records that arrive at a name, in arrival order.
ArrivalIn(entries, name) ==
    LET es == SelectSeq(entries, LAMBDA x : x[1] = name)
    IN  Concat([k \in 1..Len(es) |-> RecsOf(es[k][2])])

Arrival(e, name) == ArrivalIn(GroupEntries(e), name)

\* The contents of the records of a sequence.
Contents(recs) == {Fields(recs[k]) : k \in 1..Len(recs)}

\* The records of an emitted value.
ZoneRecs(v) == IF IsSeq(v) THEN v.items ELSE <<v>>
ZoneNames(e) == [k \in 1..Len(ZoneData(e)) |-> ZoneData(e)[k][1]]
ZoneValue(e, name) ==
    ZoneData(e)[CHOOSE k \in 1..Len(ZoneData(e)) : ZoneData(e)[k][1] = name][2]
InZone(e, name) == \E k \in 1..Len(ZoneData(e)) : ZoneData(e)[k][1] = name

\* The zone directories whose compiled zone this run has written.
Written == {k \in 1..Len(zone_dirs) : Running /\ HasZone(zone_dirs[k])}

---------------------------------------------------------------------------
(* C1 *)

\* C1: every entry (name, value) of a subdomain file that is not skipped
\* gives the records of value to the compiled zone under the remapped
\* name: rel for the empty name, name.rel for a non-empty rel, else name.
C1_NameRemapping ==
    \A z \in Written :
        LET e == zone_dirs[z]
            subs == SubFilesOf(e)
        IN  \A k \in Merged(e) :
                LET items == DocItems(subs[k].parsed)
                    rel == SpecRel(Stem(subs[k].name), e.name)
                IN  \A j \in 1..Len(items) :
                        LET target == SpecRemap(items[j][1], rel)
                            recs == RecsOf(items[j][2])
                        IN  /\ InZone(e, target)
                            /\ \A a \in 1..Len(recs) :
                                  \E b \in 1..Len(ZoneRecs(ZoneValue(e, target))) :
                                      /\ IsMap(ZoneRecs(ZoneValue(e, target))[b])
                                      /\ Fields(ZoneRecs(ZoneValue(e, target))[b])
                                         = Fields(recs[a])

\* A compiled zone of e.c that holds s and w.s (from s.e.c, rel "s") and w
\* (from .e.c, rel "").
C1_Witness ==
    \E z \in Written :
        LET e == zone_dirs[z]
        IN  /\ InZone(e, Name_s) /\ InZone(e, Name_w \o Str_dot \o Name_s)
            /\ InZone(e, Name_w)
            /\ \E k \in Merged(e) : SpecRel(Stem(SubFilesOf(e)[k].name), e.name) = Str_empty
            /\ ~HasKey(AuthFile(e).parsed, Name_s)

---------------------------------------------------------------------------
(* C2 *)

\* C2: in every compiled zone the empty name comes first and the other
\* names follow in ascending order, also when the empty name was added by
\* the apex-key guarantee.
C2_NamesOrder ==
    \A z \in Written :
        LET names == ZoneNames(zone_dirs[z])
        IN  /\ names # << >> /\ names[1] = Str_empty
            /\ \A k \in 2..(Len(names) - 1) : StrLess(names[k], names[k + 1])

---------------------------------------------------------------------------
(* C4 *)

\* C4: a record set holds no two records of one fingerprint, holds every
\* fingerprint that arrived at the name, and of the records of one
\* fingerprint holds the first to arrive.
C4_Deduplicated ==
    \A z \in Written :
        LET e == zone_dirs[z]
            entries == GroupEntries(e)
        IN  \A n \in 1..Len(ZoneData(e)) :
                LET recs == ZoneRecs(ZoneData(e)[n][2])
                    arr == ArrivalIn(entries, ZoneData(e)[n][1])
                    First(fp) == arr[CHOOSE k \in 1..Len(arr) :
                                        /\ serialize_record(arr[k]) = fp
                                        /\ \A j \in 1..(k - 1) :
                                              serialize_record(arr[j]) # fp]
                IN  /\ \A a, b \in 1..Len(recs) :
                          a # b => serialize_record(recs[a]) # serialize_record(recs[b])
                    /\ {serialize_record(recs[a]) : a \in 1..Len(recs)}
                       = {serialize_record(arr[k]) : k \in 1..Len(arr)}
                    /\ \A a \in 1..Len(recs) :
                          recs[a] = First(serialize_record(recs[a]))

\* A compiled zone with a name at which two records of one fingerprint and
\* different field order arrived, the first from the apex document.
C4_Witness ==
    \E z \in Written :
        LET e == zone_dirs[z]
            arr == Arrival(e, Name_s)
        IN  /\ HasKey(AuthFile(e).parsed, Name_s)
            /\ Len(arr) >= 3
            /\ arr[1] # arr[2] /\ Fields(arr[1]) = Fields(arr[2])
            /\ \E k \in 1..Len(arr) : Fields(arr[k]) # Fields(arr[1])

---------------------------------------------------------------------------
(* C5 *)

\* C5: a subdomain file is merged if and only if its stem ends with the
\* apex domain and is not the apex domain.  A file that is not is skipped
\* with a warning and gives the zone no name and no record; the files after
\* it are merged all the same.
C5_SkippedFiles ==
    \A z \in Written :
        LET e == zone_dirs[z]
            subs == SubFilesOf(e)
            entries == GroupEntries(e)
        IN  /\ \A k \in 1..Len(subs) :
                  LET stem == Stem(subs[k].name)
                      skip == ~(EndsWith(stem, e.name) /\ stem # e.name)
                      warning == [kind |-> "SkippedSubdomainFile", name |-> subs[k].name]
                  IN  /\ skip <=> k \notin Merged(e)
                      /\ skip <=> \E w \in 1..Len(warnings) : warnings[w] = warning
            \* the names and the records of the zone are those of the apex
            \* document and of the merged files, wherever these stand
            \* among the files
            /\ \A n \in 1..Len(ZoneData(e)) :
                  LET name == ZoneData(e)[n][1]
                  IN  /\ name = Str_empty \/ \E j \in 1..Len(entries) : entries[j][1] = name
                      /\ Contents(ZoneRecs(ZoneData(e)[n][2]))
                         = Contents(ArrivalIn(entries, name))
            /\ \A j \in 1..Len(entries) : InZone(e, entries[j][1])

\* A compiled zone of e.c built from the self-named e.c.yaml, skipped,
\* and after it a merged file that gave the zone the name s; nothing else
\* gave the zone a name.
C5_Witness ==
    \E z \in Written :
        LET e == zone_dirs[z]
            subs == SubFilesOf(e)
        IN  /\ Len(subs) = 2
            /\ Stem(subs[1].name) = e.name /\ DocItems(subs[1].parsed) # << >>
            /\ 2 \in Merged(e)
            /\ DocItems(AuthFile(e).parsed) = << >>
            /\ ZoneNames(e) = <<Name_s, Str_empty>>

---------------------------------------------------------------------------
(* C6 *)

\* C6: every compiled zone holds the empty name, once; where no record
\* arrived at it, and so where no document populated it, its value is the
\* empty sequence.
C6_ApexKeyPresent ==
    \A z \in Written :
        LET e == zone_dirs[z]
        IN  /\ Cardinality({k \in 1..Len(ZoneData(e)) : ZoneData(e)[k][1] = Str_empty}) = 1
            /\ Arrival(e, Str_empty) = << >> => ZoneValue(e, Str_empty) = SeqV(<< >>)

\* A compiled zone with other names, where no entry of any document went
\* to the empty name.
C6_Witness ==
    \E z \in Written :
        LET e == zone_dirs[z]
            entries == GroupEntries(e)
        IN  /\ \A j \in 1..Len(entries) : entries[j][1] # Str_empty
            /\ entries # << >>
            /\ Merged(e) # {}
            /\ ZoneValue(e, Str_empty) = SeqV(<< >>)

---------------------------------------------------------------------------
(* C7 *)

\* The sequences that hold the elements of s in another order.
Reorderings(s) ==
    {[k \in 1..Len(s) |-> s[p[k]]] : p \in Permutations(1..Len(s))}

\* The zone directory with its subdomain files listed in another order.
FileOrders(e) ==
    {[e EXCEPT !.files = fs] :
        fs \in {x \in Reorderings(e.files) :
                   \A k \in 1..Len(x) :
                       e.files[k].name = AuthFile(e).name => x[k] = e.files[k]}}

\* The zone directory with the records of one name of one document in
\* another order.
ListOrders(e) ==
    UNION {UNION {{[e EXCEPT !.files[a].parsed.items[b][2].items = l] :
                      l \in Reorderings(e.files[a].parsed.items[b][2].items)}
                  : b \in {j \in 1..Len(DocItems(e.files[a].parsed)) :
                              IsSeq(e.files[a].parsed.items[j][2])}}
           : a \in 1..Len(e.files)}

Variants(e) == FileOrders(e) \cup ListOrders(e)

\* A compiled zone with each record replaced by its fingerprint.
Prints(data) ==
    [k \in 1..Len(data) |->
        <<data[k][1], IsMap(data[k][2]),
          [j \in 1..Len(ZoneRecs(data[k][2])) |->
              serialize_record(ZoneRecs(data[k][2])[j])]>>]

\* The type field of a record, or the empty string.
TypeOf(r) ==
    IF \E k \in 1..Len(r.items) : r.items[k][1] = Str_type
    THEN r.items[CHOOSE k \in 1..Len(r.items) : r.items[k][1] = Str_type][2].s
    ELSE Str_empty

\* C7 as stated: the compiled zone is the same zone, record for record,
\* whatever the order of the records of a name in a document and whatever
\* the order of the subdomain files.
C7_Original ==
    \A z \in Written :
        \A v \in Variants(zone_dirs[z]) :
            LET b == ZoneBody(v)
            IN  b.kind = "write" /\ b.merged = ZoneData(zone_dirs[z])

\* C7, amended: under these reorderings the compiled zone keeps its names,
\* in the same order, and under each name the same fingerprints in the
\* same order, sorted by type (or the empty string) and then by
\* fingerprint; the records are the same up to the order of their fields.
C7_OrderIndependent ==
    \A z \in Written :
        /\ \A v \in Variants(zone_dirs[z]) :
              LET b == ZoneBody(v)
              IN  b.kind = "write" /\ Prints(b.merged) = Prints(ZoneData(zone_dirs[z]))
        /\ \A n \in 1..Len(ZoneData(zone_dirs[z])) :
              LET recs == ZoneRecs(ZoneData(zone_dirs[z])[n][2])
              IN  \A a \in 1..(Len(recs) - 1) :
                      \/ StrLess(TypeOf(recs[a]), TypeOf(recs[a + 1]))
                      \/ /\ TypeOf(recs[a]) = TypeOf(recs[a + 1])
                         /\ StrLess(serialize_record(recs[a]),
                                    serialize_record(recs[a + 1]))

\* A compiled zone built from two merged subdomain files, one of them with
\* a list of two records of different fingerprints, whose name holds three
\* records.
C7_Witness ==
    \E z \in Written :
        LET e == zone_dirs[z]
        IN  /\ Cardinality(Merged(e)) = 2
            /\ \E k \in Merged(e) :
                  \E j \in 1..Len(DocItems(SubFilesOf(e)[k].parsed)) :
                      LET v == SubFilesOf(e)[k].parsed.items[j][2]
                      IN  IsSeq(v) /\ Len(v.items) = 2
                          /\ Fields(v.items[1]) # Fields(v.items[2])
            /\ InZone(e, Name_s)
            /\ Len(ZoneRecs(ZoneValue(e, Name_s))) = 3

---------------------------------------------------------------------------
(* C8 *)

\* C8: the value of a name is the record itself exactly when one record is
\* left of those that arrived at the name once the duplicates are dropped;
\* with none or with two or more it is a sequence.
C8_SingletonCollapsed ==
    \A z \in Written :
        LET e == zone_dirs[z]
            entries == GroupEntries(e)
        IN  \A n \in 1..Len(ZoneData(e)) :
                LET v == ZoneData(e)[n][2]
                    left == Contents(ArrivalIn(entries, ZoneData(e)[n][1]))
                IN  /\ IsMap(v) <=> Cardinality(left) = 1
                    /\ IsMap(v) => Fields(v) \in left
                    /\ ~IsMap(v) => IsSeq(v) /\ Len(v.items) = Cardinality(left)

\* A compiled zone with a name whose value is a record, a name whose value
\* is a sequence of two records and a name whose value is the empty sequence.
C8_Witness ==
    \E z \in Written :
        LET e == zone_dirs[z]
        IN  /\ \E n \in 1..Len(ZoneData(e)) : IsMap(ZoneData(e)[n][2])
            /\ \E n \in 1..Len(ZoneData(e)) :
                  IsSeq(ZoneData(e)[n][2]) /\ Len(ZoneData(e)[n][2].items) = 2
            /\ \E n \in 1..Len(ZoneData(e)) : ZoneData(e)[n][2] = SeqV(<< >>)

====
